---- MODULE Spec2Model ----
(***************************************************************************)
(* Model of scripts/align_planet.py: the centroid locator, the crop        *)
(* planner, the frame preprocessor and the two-phase pipeline.             *)
(*                                                                         *)
(* Three specifications share the variables:                               *)
(*   SpecLocate  centr_scan_monochrome applied to bounded images           *)
(*   SpecPlan    crop_calculate_size applied to bounded centroid lists     *)
(*   Spec        the module-level pipeline over a small file system        *)
(***************************************************************************)
EXTENDS Integers, Sequences, FiniteSets, TLC

\* ---------------------------------------------------------------- bounds
MaxW == 3
MaxH == 2
MaxRadius == 2
MaxCentroids == 2
MaxFrames == 3

VARIABLES
    mode,          \* which specification is running
    \* SpecLocate and SpecPlan: one call of a pure function
    image,         \* the monochrome image handed to the locator
    center_infos,  \* the centroids handed to the crop planner
    call_opts,     \* the options of the call
    call_pc,       \* "call" before the call, "done" after it
    call_result,   \* what the call produced
    \* Spec: the module-level pipeline
    frames,        \* sys.argv[2:], the input frame paths
    pc,            \* where the main process is
    det,           \* per frame: the pickle_centroid task of the centroid pool
    tmpFiles,      \* the temporary files that exist, each with its creator
    foreign,       \* a task has read, written or removed another task's temporary file
    crop_info,     \* the result of centroid_pool.map
    filtered_crop_info,
    warnings,      \* number of WARNING lines printed
    crop_size,     \* the planned crop size
    crop_args,     \* the argument tuples of phase 2
    crop,          \* per crop argument: the pickle_crop task of the crop pool
    outFiles       \* the files that exist in the output directory

callVars == <<image, center_infos, call_opts, call_pc, call_result>>

pipeVars == <<frames, pc, det, tmpFiles, foreign, crop_info, filtered_crop_info,
              warnings, crop_size, crop_args, crop, outFiles>>

vars == <<mode, callVars, pipeVars>>

\* ------------------------------------------------------- values and helpers
None == [tag |-> "None"]

IsNone(v) == v.tag = "None"

Max2(a, b) == IF a >= b THEN a ELSE b

Min2(a, b) == IF a <= b THEN a ELSE b

\* Python 3 round() of the quotient n / d (n >= 0, d > 0): ties go to even.
PyRound(n, d) ==
    LET q == n \div d
        r == n % d
    IN  IF 2 * r < d THEN q
        ELSE IF 2 * r > d THEN q + 1
        ELSE IF q % 2 = 0 THEN q ELSE q + 1

\* range(lo, hi) and range(0, hi, step)
PyRange(lo, hi) == lo .. (hi - 1)

PyRangeStep(hi, step) == {k \in 0 .. (hi - 1) : k % step = 0}

\* sum of coordinate k over a set of points
RECURSIVE SumCoord(_, _)
SumCoord(P, k) ==
    IF P = {} THEN 0
    ELSE LET p == CHOOSE q \in P : TRUE IN p[k] + SumCoord(P \ {p}, k)

\* ---------------------------------------------------------------- extent
extent(arr) ==
    IF arr = {} THEN None
    ELSE [tag |-> "extent",
          lo |-> CHOOSE a \in arr : \A b \in arr : a <= b,
          hi |-> CHOOSE a \in arr : \A b \in arr : a >= b]

\* ------------------------------------------------------ centroid locator
Threshold == 10

centr_is_pixel_white(pixel) == pixel[1] > Threshold

\* image.getpixel(p): the pixel's channels
getpixel(im, p) == im.px[p]

\* itertools.product(x_range, y_range) runs x outermost: the first lit
\* lattice point is the least one in (x, y) order.
centr_find_pixel(im, stride) ==
    LET x_range == PyRangeStep(im.size[1], stride)
        y_range == PyRangeStep(im.size[2], stride)
        hits == {p \in x_range \X y_range : centr_is_pixel_white(getpixel(im, p))}
    IN  IF hits = {} THEN None
        ELSE [tag |-> "Point",
              p |-> CHOOSE p \in hits : \A q \in hits :
                        p[1] < q[1] \/ (p[1] = q[1] /\ p[2] <= q[2])]

\* mutant: the window closed at its upper end, [center - radius, center + radius]
centr_search_pixels_inclusive(im, radius, center) ==
    LET min_x == Max2(0, center[1] - radius)
        min_y == Max2(0, center[2] - radius)
        max_x == Min2(im.size[1], center[1] + radius + 1)
        max_y == Min2(im.size[2], center[2] + radius + 1)
    IN  {p \in PyRange(min_x, max_x) \X PyRange(min_y, max_y) :
            centr_is_pixel_white(getpixel(im, p))}

centr_search_pixels(im, radius, center) ==
    LET min_x == Max2(0, center[1] - radius)
        min_y == Max2(0, center[2] - radius)
        max_x == Min2(im.size[1], center[1] + radius)
        max_y == Min2(im.size[2], center[2] + radius)
    IN  {p \in PyRange(min_x, max_x) \X PyRange(min_y, max_y) :
            centr_is_pixel_white(getpixel(im, p))}

\* the loop over the stride sequence, from index k on
RECURSIVE StrideLoop(_, _, _)
StrideLoop(im, seq, k) ==
    IF k > Len(seq) THEN None
    ELSE LET center == centr_find_pixel(im, seq[k])
         IN  IF ~IsNone(center) THEN center ELSE StrideLoop(im, seq, k + 1)

\* Result: an ImageCentroid, None, or the NameError raised while the
\* message of line 136-137 is built (_stride_sequence_px is not defined).
centr_scan_monochrome(im, opts) ==
    LET center == StrideLoop(im, opts.centroid_stride_sequence_px, 1)
    IN  IF IsNone(center) THEN [tag |-> "NameError"]
        ELSE LET white_pixels ==
                     centr_search_pixels(im, opts.centroid_search_radius_px, center.p)
             IN  IF white_pixels = {} THEN None
                 ELSE LET n == Cardinality(white_pixels)
                          x_vals == {p[1] : p \in white_pixels}
                          y_vals == {p[2] : p \in white_pixels}
                          x_extent == extent(x_vals)
                          y_extent == extent(y_vals)
                      IN  [tag |-> "ImageCentroid",
                           center |-> <<PyRound(SumCoord(white_pixels, 1), n),
                                        PyRound(SumCoord(white_pixels, 2), n)>>,
                           size_x |-> x_extent.hi - x_extent.lo,
                           size_y |-> y_extent.hi - y_extent.lo]

\* ----------------------------------------------------------- crop planner
\* A float that is an integer multiple of 1/den, kept exact: num / den.
Times(n, ratio) == [num |-> n * ratio.num, den |-> ratio.den]

RatEq(r, n) == r.num = n * r.den

RatGeq(r, n) == r.num >= n * r.den

\* "%d" % r : truncation toward zero (r >= 0)
Trunc(r) == r.num \div r.den

\* max() over a non-empty collection of numbers
PyMax(vals) == CHOOSE a \in vals : \A b \in vals : a >= b

PyMin(vals) == CHOOSE a \in vals : \A b \in vals : a <= b

SizesX(infos) == {infos[k].size_x : k \in 1 .. Len(infos)}

SizesY(infos) == {infos[k].size_y : k \in 1 .. Len(infos)}

\* mutant: the height taken from size_x
crop_calculate_size_swapped(infos, opts) ==
    IF Len(infos) = 0 THEN [tag |-> "ValueError"]
    ELSE [tag |-> "size",
          x |-> Times(PyMax(SizesX(infos)), opts.crop_ratio),
          y |-> Times(PyMax(SizesX(infos)), opts.crop_ratio)]

\* mutant: min() in place of max()
crop_calculate_size_min(infos, opts) ==
    IF Len(infos) = 0 THEN [tag |-> "ValueError"]
    ELSE [tag |-> "size",
          x |-> Times(PyMin(SizesX(infos)), opts.crop_ratio),
          y |-> Times(PyMin(SizesY(infos)), opts.crop_ratio)]

\* mutant: max(..., default=0), no ValueError on an empty sequence
crop_calculate_size_default(infos, opts) ==
    [tag |-> "size",
     x |-> Times(IF Len(infos) = 0 THEN 0 ELSE PyMax(SizesX(infos)), opts.crop_ratio),
     y |-> Times(IF Len(infos) = 0 THEN 0 ELSE PyMax(SizesY(infos)), opts.crop_ratio)]

\* max() of an empty sequence raises ValueError
crop_calculate_size(infos, opts) ==
    IF Len(infos) = 0 THEN [tag |-> "ValueError"]
    ELSE LET size_x == PyMax(SizesX(infos))
             size_y == PyMax(SizesY(infos))
         IN  [tag |-> "size",
              x |-> Times(size_x, opts.crop_ratio),
              y |-> Times(size_y, opts.crop_ratio)]

\* ---------------------------------------------------------------- options
ProcessingOpts(output_dir) ==
    [output_dir |-> output_dir,
     centroid_threshold_pct |-> 2,
     centroid_stride_sequence_px |-> <<64, 32, 16, 8, 4, 2, 1>>,
     centroid_search_radius_px |-> 150,
     centroid_pool_size |-> 4,
     crop_ratio |-> [num |-> 7, den |-> 2],
     crop_pool_size |-> 4]

\* ------------------------------------------------------------ SpecLocate
DarkValues == {0, 10}

LitValues == {11, 255}

Grid(w, h) == (0 .. (w - 1)) \X (0 .. (h - 1))

MkImage(w, h, lit, dv, lv) ==
    [size |-> <<w, h>>,
     px |-> [p \in Grid(w, h) |-> IF p \in lit THEN <<lv, lv, lv>> ELSE <<dv, dv, dv>>]]

Images ==
    {MkImage(s[1], s[2], lit, v[1], v[2]) :
        s \in (0 .. MaxW) \X (0 .. MaxH),
        lit \in SUBSET Grid(MaxW, MaxH),
        v \in DarkValues \X LitValues}

StrideSequences == {<<1>>, <<2, 1>>, <<4, 2, 1>>, <<2>>, <<4, 2>>}

LocateOpts(seq, radius) ==
    [centroid_stride_sequence_px |-> seq, centroid_search_radius_px |-> radius]

PipeIdle ==
    /\ frames = <<>>
    /\ pc = "idle"
    /\ det = <<>>
    /\ tmpFiles = {}
    /\ foreign = FALSE
    /\ crop_info = <<>>
    /\ filtered_crop_info = <<>>
    /\ warnings = 0
    /\ crop_size = None
    /\ crop_args = <<>>
    /\ crop = <<>>
    /\ outFiles = {}

InitLocate ==
    /\ mode = "locate"
    /\ image \in Images
    /\ center_infos = <<>>
    /\ call_opts \in {LocateOpts(seq, r) : seq \in StrideSequences, r \in 0 .. MaxRadius}
    /\ call_pc = "call"
    /\ call_result = None
    /\ PipeIdle

Locate ==
    /\ mode = "locate"
    /\ call_pc = "call"
    /\ call_result' = centr_scan_monochrome(image, call_opts)
    /\ call_pc' = "done"
    /\ UNCHANGED <<mode, image, center_infos, call_opts, pipeVars>>

NextLocate == Locate

SpecLocate == InitLocate /\ [][NextLocate]_vars

\* --------------------------------------------------------------- SpecPlan
PlanSizes == {0, 5, 10, 20}

PlanRatios == {[num |-> 1, den |-> 1], [num |-> 2, den |-> 1], [num |-> 7, den |-> 2]}

PlanCentroids ==
    {[tag |-> "ImageCentroid", center |-> <<0, 0>>, size_x |-> sx, size_y |-> sy] :
        sx \in PlanSizes, sy \in PlanSizes}

InitPlan ==
    /\ mode = "plan"
    /\ image = MkImage(0, 0, {}, 0, 255)
    /\ center_infos \in UNION {[1 .. n -> PlanCentroids] : n \in 0 .. MaxCentroids}
    /\ call_opts \in {[crop_ratio |-> r] : r \in PlanRatios}
    /\ call_pc = "call"
    /\ call_result = None
    /\ PipeIdle

Plan ==
    /\ mode = "plan"
    /\ call_pc = "call"
    /\ call_result' = crop_calculate_size(center_infos, call_opts)
    /\ call_pc' = "done"
    /\ UNCHANGED <<mode, image, center_infos, call_opts, pipeVars>>

NextPlan == Plan

SpecPlan == InitPlan /\ [][NextPlan]_vars

\* ------------------------------------------------------------ file system
Path(dir, stem, ext) == [dir |-> dir, stem |-> stem, ext |-> ext]

\* The frames a batch can name.  a/f and b/f share their base name.
\*   a/f  planet 3 px wide      b/f  planet 2 px tall     a/h  planet of 1 px
\*   a/g  all dark              a/m  no such file         a/x  convert fails on it
InputFiles ==
    {Path("a", "f", ".jpg"), Path("b", "f", ".jpg"), Path("a", "h", ".jpg"),
     Path("a", "g", ".jpg"), Path("a", "m", ".jpg"), Path("a", "x", ".jpg")}

\* os.path.isfile(input_image)
isfile(path) == path # Path("a", "m", ".jpg")

\* convert <input_image> -threshold 2% <temp_file>: the monochrome image
\* written to temp_file, or a non-zero exit (check_output raises)
convert_threshold(path) ==
    CASE path = Path("a", "f", ".jpg") ->
            [ok |-> TRUE, image |-> MkImage(3, 2, {<<0, 0>>, <<1, 0>>, <<2, 0>>}, 0, 255)]
      [] path = Path("b", "f", ".jpg") ->
            [ok |-> TRUE, image |-> MkImage(3, 2, {<<1, 0>>, <<1, 1>>}, 0, 255)]
      [] path = Path("a", "h", ".jpg") ->
            [ok |-> TRUE, image |-> MkImage(3, 2, {<<1, 1>>}, 0, 255)]
      [] path = Path("a", "g", ".jpg") ->
            [ok |-> TRUE, image |-> MkImage(3, 2, {}, 0, 255)]
      [] OTHER -> [ok |-> FALSE]

\* ------------------------------------------------------ frame preprocessor
\* tempfile.mkstemp(suffix=input_ext)[1] in task i: a name no other call gets
mkstemp(i, suffix) == [id |-> i, suffix |-> suffix]

\* what the try block of find_center produces: the locator's result, or the
\* CalledProcessError of check_output
find_center_try(input_image, opts) ==
    LET conv == convert_threshold(input_image)
    IN  IF ~conv.ok THEN [tag |-> "CalledProcessError"]
        ELSE centr_scan_monochrome(conv.image, opts)

IsRaise(outcome) == outcome.tag \in {"NameError", "CalledProcessError"}

\* mutant: no try/finally, temp_file is removed only when nothing was raised
find_center_remove_on_return(files, temp_file, outcome) ==
    IF IsRaise(outcome) THEN files ELSE {f \in files : f.name # temp_file}

\* the finally block of find_center: temp_file is removed whatever the outcome
find_center_finally(files, temp_file, outcome) ==
    {f \in files : f.name # temp_file}

\* get_frame_centroid: an exception of find_center propagates, "not cent"
\* gives None, a centroid gives (input_image, cent)
get_frame_centroid(input_image, outcome) ==
    IF IsRaise(outcome) THEN [tag |-> "raise", exc |-> outcome.tag]
    ELSE IF outcome.tag = "None" THEN None
    ELSE [tag |-> "tuple", input_image |-> input_image, cent |-> outcome]

\* ----------------------------------------------------------------- cropper
crop_on_center(input_image, center, image_size, opts) ==
    LET cx == center.center[1] - PyRound(image_size.x.num, 2 * image_size.x.den)
        cy == center.center[2] - PyRound(image_size.y.num, 2 * image_size.y.den)
    IN  [input_image |-> input_image,
         out_file |-> Path(opts.output_dir, input_image.stem \o "_aligned", input_image.ext),
         geometry |-> [w |-> Trunc(image_size.x), h |-> Trunc(image_size.y),
                       x |-> cx, y |-> cy]]

\* ------------------------------------------------------------ orchestrator
opts == ProcessingOpts("out")

Batches == UNION {[1 .. n -> InputFiles] : n \in 1 .. MaxFrames}

CallIdle ==
    /\ image = MkImage(0, 0, {}, 0, 255)
    /\ center_infos = <<>>
    /\ call_opts = None
    /\ call_pc = "idle"
    /\ call_result = None

Init ==
    /\ mode = "pipeline"
    /\ CallIdle
    /\ frames \in Batches
    /\ pc = "phase1"
    /\ det = [i \in 1 .. Len(frames) |-> [st |-> "pending", temp |-> None, res |-> None]]
    /\ tmpFiles = {}
    /\ foreign = FALSE
    /\ crop_info = <<>>
    /\ filtered_crop_info = <<>>
    /\ warnings = 0
    /\ crop_size = None
    /\ crop_args = <<>>
    /\ crop = <<>>
    /\ outFiles = {}

Running(tasks) == {i \in DOMAIN tasks : tasks[i].st = "running"}

\* pickle_centroid(frames[i]) starts in a worker of the centroid pool and runs
\* up to the convert subprocess; a missing file ends the call at once.
DetectStart(i) ==
    /\ pc = "phase1"
    /\ det[i].st = "pending"
    /\ Cardinality(Running(det)) < opts.centroid_pool_size
    /\ IF ~isfile(frames[i])
       THEN /\ det' = [det EXCEPT ![i] = [st |-> "done", temp |-> None,
                                          res |-> get_frame_centroid(frames[i], None)]]
            /\ UNCHANGED tmpFiles
       ELSE LET temp_file == mkstemp(i, frames[i].ext)
            IN  /\ det' = [det EXCEPT ![i] = [st |-> "running", temp |-> temp_file,
                                              res |-> None]]
                /\ tmpFiles' = {f \in tmpFiles : f.name # temp_file}
                                  \cup {[name |-> temp_file, owner |-> i]}
    /\ UNCHANGED <<mode, callVars, frames, pc, foreign, crop_info, filtered_crop_info,
                   warnings, crop_size, crop_args, crop, outFiles>>

\* the rest of the call: convert, the scan of temp_file, the finally block,
\* and the return or raise of get_frame_centroid
DetectFinish(i) ==
    /\ pc = "phase1"
    /\ det[i].st = "running"
    /\ LET outcome == find_center_try(frames[i], opts)
           r == get_frame_centroid(frames[i], outcome)
       IN  /\ det' = [det EXCEPT ![i] = [st |-> IF r.tag = "raise" THEN "raised" ELSE "done",
                                         temp |-> det[i].temp, res |-> r]]
           /\ tmpFiles' = find_center_finally(tmpFiles, det[i].temp, outcome)
           /\ foreign' = (foreign \/ \E f \in tmpFiles :
                                        f.name = det[i].temp /\ f.owner # i)
    /\ UNCHANGED <<mode, callVars, frames, pc, crop_info, filtered_crop_info,
                   warnings, crop_size, crop_args, crop, outFiles>>

\* mutant: map returns with the first task that has returned
SomeReturned(tasks) == \E i \in DOMAIN tasks : tasks[i].st = "done"

\* centroid_pool.map returns only when every task has returned
AllReturned(tasks) == \A i \in DOMAIN tasks : tasks[i].st = "done"

Phase1Return ==
    /\ pc = "phase1"
    /\ AllReturned(det)
    /\ crop_info' = [i \in 1 .. Len(frames) |-> det[i].res]
    /\ pc' = "filter"
    /\ UNCHANGED <<mode, callVars, frames, det, tmpFiles, foreign, filtered_crop_info,
                   warnings, crop_size, crop_args, crop, outFiles>>

\* A task's exception is re-raised by map in the main process, which ends the
\* script; leaving the with block terminates the pool.  Pythons before 3.8
\* re-raise as soon as the failure arrives (tasks still running are killed),
\* later ones once every task has ended: both are allowed here.
Phase1Raise ==
    /\ pc = "phase1"
    /\ \E i \in DOMAIN det : det[i].st = "raised"
    /\ pc' = "error"
    /\ UNCHANGED <<mode, callVars, frames, det, tmpFiles, foreign, crop_info,
                   filtered_crop_info, warnings, crop_size, crop_args, crop, outFiles>>

Filter ==
    /\ pc = "filter"
    /\ filtered_crop_info' = SelectSeq(crop_info, LAMBDA x : x.tag # "None")
    /\ warnings' = IF Len(crop_info) # Len(filtered_crop_info') THEN warnings + 1
                   ELSE warnings
    /\ pc' = "plan"
    /\ UNCHANGED <<mode, callVars, frames, det, tmpFiles, foreign, crop_info,
                   crop_size, crop_args, crop, outFiles>>

CalculateSize ==
    /\ pc = "plan"
    /\ LET size == crop_calculate_size(
                       [k \in 1 .. Len(filtered_crop_info) |-> filtered_crop_info[k].cent],
                       opts)
       IN  IF size.tag = "ValueError"
           THEN /\ pc' = "error"
                /\ UNCHANGED <<crop_size, crop_args, crop>>
           ELSE /\ crop_size' = size
                /\ crop_args' = [k \in 1 .. Len(filtered_crop_info) |->
                                    [input_image |-> filtered_crop_info[k].input_image,
                                     center |-> filtered_crop_info[k].cent,
                                     image_size |-> size]]
                /\ crop' = [k \in 1 .. Len(filtered_crop_info) |->
                                    [st |-> "pending", starts |-> 0]]
                /\ pc' = "phase2"
    /\ UNCHANGED <<mode, callVars, frames, det, tmpFiles, foreign, crop_info,
                   filtered_crop_info, warnings, outFiles>>

CropCall(k) ==
    crop_on_center(crop_args[k].input_image, crop_args[k].center,
                   crop_args[k].image_size, opts)

CropStart(k) ==
    /\ pc = "phase2"
    /\ crop[k].st = "pending"
    /\ Cardinality(Running(crop)) < opts.crop_pool_size
    /\ crop' = [crop EXCEPT ![k] = [st |-> "running", starts |-> crop[k].starts + 1]]
    /\ UNCHANGED <<mode, callVars, frames, pc, det, tmpFiles, foreign, crop_info,
                   filtered_crop_info, warnings, crop_size, crop_args, outFiles>>

\* convert -crop exits with 0 and out_file is written
CropFinish(k) ==
    /\ pc = "phase2"
    /\ crop[k].st = "running"
    /\ crop' = [crop EXCEPT ![k].st = "done"]
    /\ outFiles' = outFiles \cup {CropCall(k).out_file}
    /\ UNCHANGED <<mode, callVars, frames, pc, det, tmpFiles, foreign, crop_info,
                   filtered_crop_info, warnings, crop_size, crop_args>>

\* convert -crop exits non-zero: check_output raises CalledProcessError
CropFail(k) ==
    /\ pc = "phase2"
    /\ crop[k].st = "running"
    /\ crop' = [crop EXCEPT ![k].st = "raised"]
    /\ UNCHANGED <<mode, callVars, frames, pc, det, tmpFiles, foreign, crop_info,
                   filtered_crop_info, warnings, crop_size, crop_args, outFiles>>

Phase2Return ==
    /\ pc = "phase2"
    /\ AllReturned(crop)
    /\ pc' = "done"
    /\ UNCHANGED <<mode, callVars, frames, det, tmpFiles, foreign, crop_info,
                   filtered_crop_info, warnings, crop_size, crop_args, crop, outFiles>>

Phase2Raise ==
    /\ pc = "phase2"
    /\ \E k \in DOMAIN crop : crop[k].st = "raised"
    /\ pc' = "error"
    /\ UNCHANGED <<mode, callVars, frames, det, tmpFiles, foreign, crop_info,
                   filtered_crop_info, warnings, crop_size, crop_args, crop, outFiles>>

Next ==
    \/ \E i \in DOMAIN det : DetectStart(i)
    \/ \E i \in DOMAIN det : DetectFinish(i)
    \/ Phase1Return
    \/ Phase1Raise
    \/ Filter
    \/ CalculateSize
    \/ \E k \in DOMAIN crop : CropStart(k)
    \/ \E k \in DOMAIN crop : CropFinish(k)
    \/ \E k \in DOMAIN crop : CropFail(k)
    \/ Phase2Return
    \/ Phase2Raise

Spec == Init /\ [][Next]_vars

\* ------------------------------------------------- claims on the locator
\* the lit pixels of an image, by the definition of "lit" (first channel > 10)
LitPixels(im) == {p \in Grid(im.size[1], im.size[2]) : im.px[p][1] > 10}

Adjacent(p, q) ==
    /\ p # q
    /\ p[1] - q[1] \in {-1, 0, 1}
    /\ p[2] - q[2] \in {-1, 0, 1}

RECURSIVE Grow(_, _)
Grow(S, R) ==
    LET more == {q \in S \ R : \E p \in R : Adjacent(p, q)}
    IN  IF more = {} THEN R ELSE Grow(S, R \cup more)

\* S is one contiguous (8-connected) non-empty region
Contiguous(S) == S # {} /\ Grow(S, {CHOOSE p \in S : TRUE}) = S

MinOf(S) == CHOOSE a \in S : \A b \in S : a <= b

MaxOf(S) == CHOOSE a \in S : \A b \in S : a >= b

BoxW(P) == MaxOf({p[1] : p \in P}) - MinOf({p[1] : p \in P})

BoxH(P) == MaxOf({p[2] : p \in P}) - MinOf({p[2] : p \in P})

InBox(c, P) ==
    /\ MinOf({p[1] : p \in P}) <= c[1] /\ c[1] <= MaxOf({p[1] : p \in P})
    /\ MinOf({p[2] : p \in P}) <= c[2] /\ c[2] <= MaxOf({p[2] : p \in P})

\* the seed pixel as the spec words it: the first stride of the sequence with
\* a lit lattice point, and that stride's first lit point in scan order
OnLattice(p, s) == p[1] % s = 0 /\ p[2] % s = 0

SeedStride(im, seq) ==
    CHOOSE k \in 1 .. Len(seq) :
        /\ \E p \in LitPixels(im) : OnLattice(p, seq[k])
        /\ \A j \in 1 .. (k - 1) : ~\E p \in LitPixels(im) : OnLattice(p, seq[j])

SeedPixel(im, seq) ==
    LET c == {p \in LitPixels(im) : OnLattice(p, seq[SeedStride(im, seq)])}
    IN  CHOOSE p \in c : \A q \in c : p[1] < q[1] \/ (p[1] = q[1] /\ p[2] <= q[2])

\* lit pixels inside the refinement window [seed - radius, seed + radius)
WindowLit(im, seq, radius) ==
    LET s == SeedPixel(im, seq)
    IN  {p \in LitPixels(im) :
            /\ s[1] - radius <= p[1] /\ p[1] < s[1] + radius
            /\ s[2] - radius <= p[2] /\ p[2] < s[2] + radius}

LocateDone == mode = "locate" /\ call_pc = "done"

SingleRegionCase ==
    /\ LocateDone
    /\ Contiguous(LitPixels(image))
    /\ call_opts.centroid_stride_sequence_px[Len(call_opts.centroid_stride_sequence_px)] = 1
    /\ call_opts.centroid_search_radius_px >= 1

\* C2 (as claimed): for every all-dark image and every stride sequence the
\* locator returns None as a normal result: no error, no Centroid.
C2_AllDarkReturnsNone ==
    (LocateDone /\ LitPixels(image) = {}) => call_result.tag = "None"

\* C3 (as claimed): for a single contiguous lit region, a stride sequence
\* ending in 1 and a radius >= 1, the locator returns a Centroid whose center
\* is inside the region's bounding box and whose size is the bounding box of
\* ALL lit pixels of the image.
C3_SizeIsWholeRegionBox ==
    SingleRegionCase =>
        /\ call_result.tag = "ImageCentroid"
        /\ InBox(call_result.center, LitPixels(image))
        /\ call_result.size_x = BoxW(LitPixels(image))
        /\ call_result.size_y = BoxH(LitPixels(image))

\* C3 (amended): in the same case the locator returns a Centroid whose center
\* is inside the region's bounding box and whose size is the bounding box of
\* the lit pixels inside the refinement window [seed - radius, seed + radius)
\* around the seed pixel; that size never exceeds the region's bounding box
\* and equals it whenever the whole region lies inside the window.
C3_SizeIsWindowBox ==
    SingleRegionCase =>
        LET win == WindowLit(image, call_opts.centroid_stride_sequence_px,
                             call_opts.centroid_search_radius_px)
            all == LitPixels(image)
        IN  /\ call_result.tag = "ImageCentroid"
            /\ InBox(call_result.center, all)
            /\ call_result.size_x = BoxW(win)
            /\ call_result.size_y = BoxH(win)
            /\ call_result.size_x <= BoxW(all)
            /\ call_result.size_y <= BoxH(all)
            /\ (win = all => /\ call_result.size_x = BoxW(all)
                             /\ call_result.size_y = BoxH(all))

\* C3 witness: a region wider than the window has been located, and the
\* reported width is the window's, smaller than the region's.
C3_Witness ==
    /\ SingleRegionCase
    /\ call_result.tag = "ImageCentroid"
    /\ WindowLit(image, call_opts.centroid_stride_sequence_px,
                 call_opts.centroid_search_radius_px) # LitPixels(image)
    /\ call_result.size_x < BoxW(LitPixels(image))

\* ------------------------------------------------ claims on the crop planner
SizesOf(infos) == [k \in 1 .. Len(infos) |-> <<infos[k].size_x, infos[k].size_y>>]

PlanExampleCase ==
    /\ mode = "plan"
    /\ call_pc = "done"
    /\ SizesOf(center_infos) = <<<<10, 10>>, <<20, 5>>>>
    /\ call_opts.crop_ratio = [num |-> 2, den |-> 1]

\* C4 (as claimed): the crop planner applied to two centroids of sizes
\* (10,10) and (20,5) with crop ratio 2 returns the planned size (40,10).
C4_PlanExampleAsClaimed ==
    PlanExampleCase =>
        /\ call_result.tag = "size"
        /\ RatEq(call_result.x, 40)
        /\ RatEq(call_result.y, 10)

\* C4 (amended): the crop planner applied to two centroids of sizes (10,10)
\* and (20,5) with crop ratio 2 returns the planned size (40,20): the largest
\* width 20 and the largest height 10, each times 2.
C4_PlanExample ==
    PlanExampleCase =>
        /\ call_result.tag = "size"
        /\ RatEq(call_result.x, 40)
        /\ RatEq(call_result.y, 20)

\* C4 witness: the planner has been called on exactly that input.
C4_Witness == PlanExampleCase /\ call_result.tag = "size"

\* -------------------------------------------------- claims on the pipeline
Pipeline == mode = "pipeline"

\* what a frame is, by the file behind its path (not by the locator)
Detectable(path) ==
    /\ isfile(path)
    /\ convert_threshold(path).ok
    /\ LitPixels(convert_threshold(path).image) # {}

DarkFrame(path) ==
    /\ isfile(path)
    /\ convert_threshold(path).ok
    /\ LitPixels(convert_threshold(path).image) = {}

Terminated == pc \in {"done", "error"}

NoCropFailure == \A k \in DOMAIN crop : crop[k].st # "raised"

\* every detection task has returned or raised (none was cut short)
AllEnded == \A i \in DOMAIN det : det[i].st \in {"done", "raised"}

AlignedName(path) == Path("out", path.stem \o "_aligned", path.ext)

CentroidOf(path) == centr_scan_monochrome(convert_threshold(path).image, opts)

\* C1 (as claimed): a batch A, B, C where B's thresholded image has no lit
\* pixel and A and C have an object ends phase 2 with exactly the 2 aligned
\* files of A and C, exactly one warning, and a planned size computed from
\* the centroids of A and C only.  (A and C are taken with different base
\* names, every detection task is let run to its end, and the crop tool is
\* taken not to fail.)
C1_DarkFrameTolerated ==
    ( /\ Pipeline
      /\ Len(frames) = 3
      /\ Detectable(frames[1]) /\ DarkFrame(frames[2]) /\ Detectable(frames[3])
      /\ frames[1].stem # frames[3].stem
      /\ AllEnded
      /\ Terminated
      /\ NoCropFailure )
    => /\ pc = "done"
       /\ outFiles = {AlignedName(frames[1]), AlignedName(frames[3])}
       /\ Cardinality(outFiles) = 2
       /\ warnings = 1
       /\ crop_size = crop_calculate_size(
                          <<CentroidOf(frames[1]), CentroidOf(frames[3])>>, opts)

\* C5 (as claimed): a frame whose detection fails (file missing, no centroid,
\* thresholding subprocess failed) is merely absent from the phase-1 results:
\* the pool is not aborted and every frame whose detection succeeds is
\* planned and cropped.  (Every detection task is let run to its end and the
\* crop tool is taken not to fail.)
C5_FailureIsolated ==
    ( /\ Pipeline
      /\ AllEnded
      /\ Terminated
      /\ NoCropFailure
      /\ \E i \in DOMAIN frames : Detectable(frames[i]) )
    => /\ pc = "done"
       /\ \A i \in DOMAIN frames :
              Detectable(frames[i]) =>
                  \E k \in DOMAIN crop :
                      crop_args[k].input_image = frames[i] /\ crop[k].st = "done"

\* C6: in every batch that reaches phase 2 the one planned crop size is, on
\* each axis, at least the detected size of every successful frame, every
\* detected size is non-negative, and every crop task gets that same size
\* (also as the width and height written into its -crop geometry).
C6_PlannedSizeCoversAll ==
    (Pipeline /\ crop_size.tag = "size") =>
        /\ \A i \in DOMAIN crop_info :
               crop_info[i].tag = "tuple" =>
                   /\ crop_info[i].cent.size_x >= 0
                   /\ crop_info[i].cent.size_y >= 0
                   /\ RatGeq(crop_size.x, crop_info[i].cent.size_x)
                   /\ RatGeq(crop_size.y, crop_info[i].cent.size_y)
                   /\ \A k \in DOMAIN crop_args :
                          /\ CropCall(k).geometry.w >= crop_info[i].cent.size_x
                          /\ CropCall(k).geometry.h >= crop_info[i].cent.size_y
        /\ \A k \in DOMAIN crop_args : crop_args[k].image_size = crop_size

\* C6 witness: phase 2 has completed for a batch whose frames differ in
\* detected size on both axes, so the maximum is taken over different frames.
C6_Witness ==
    /\ Pipeline
    /\ pc = "done"
    /\ \E i, j \in DOMAIN crop_info :
           /\ crop_info[i].tag = "tuple" /\ crop_info[j].tag = "tuple"
           /\ crop_info[i].cent.size_x > crop_info[j].cent.size_x
           /\ crop_info[i].cent.size_y < crop_info[j].cent.size_y

\* every detection task has ended and none produced a centroid
AllAbsent ==
    \A i \in DOMAIN det :
        det[i].st \in {"done", "raised"} /\ det[i].res.tag # "tuple"

\* C7: if no frame of the batch produces a Centroid, the run ends in an error
\* before phase 2: no crop task is ever started, no output file is written,
\* the run never reports normal completion, and the planning step can only
\* fail.
C7_EmptyBatchAborts ==
    (Pipeline /\ AllAbsent) =>
        /\ pc \in {"phase1", "filter", "plan", "error"}
        /\ crop = <<>>
        /\ crop_args = <<>>
        /\ crop_size = None
        /\ outFiles = {}
        /\ (pc = "plan" => ~ENABLED (CalculateSize /\ pc' = "phase2"))

\* C7 witness: every frame returned "no centroid", the warning was printed
\* and the planning step has raised.
C7_Witness ==
    /\ Pipeline
    /\ AllAbsent
    /\ \A i \in DOMAIN det : det[i].st = "done"
    /\ Len(frames) >= 2
    /\ warnings = 1
    /\ pc = "error"

\* C8 (as claimed): the crop tasks of two different successful input frames
\* never write to the same output path, so after a completed batch of
\* different input paths the output directory holds as many files as there
\* are successful frames.
C8_OneFilePerFrame ==
    ( /\ Pipeline
      /\ pc = "done"
      /\ \A i, j \in DOMAIN frames : i # j => frames[i] # frames[j] )
    => /\ Cardinality(outFiles) = Len(filtered_crop_info)
       /\ \A j, k \in DOMAIN crop_args :
              j # k => CropCall(j).out_file # CropCall(k).out_file

\* the paths of the frames whose phase-1 result is a Centroid, in batch order
RECURSIVE SuccessPaths(_)
SuccessPaths(n) ==
    IF n = 0 THEN <<>>
    ELSE IF det[n].res.tag = "tuple"
         THEN Append(SuccessPaths(n - 1), frames[n])
         ELSE SuccessPaths(n - 1)

\* C9: no crop task starts and the planned size is not computed until every
\* detection task has finished; the frames cropped in phase 2 are exactly the
\* frames whose phase-1 result is a Centroid, each cropped at most once.
C9_PhaseBarrier ==
    Pipeline =>
        /\ (pc \in {"filter", "plan", "phase2", "done"} \/ crop_size # None
              \/ crop # <<>> \/ crop_info # <<>>)
               => \A i \in DOMAIN det : det[i].st = "done"
        /\ \A k \in DOMAIN crop : crop[k].starts <= 1
        /\ \A k \in DOMAIN crop : crop[k].st # "pending" => crop[k].starts = 1
        /\ crop # <<>> =>
               [k \in DOMAIN crop |-> crop_args[k].input_image]
                   = SuccessPaths(Len(frames))
        /\ pc = "done" => \A k \in DOMAIN crop : crop[k].st = "done"

\* C9 witness: a batch with a failed and two successful frames has completed
\* phase 2.
C9_Witness ==
    /\ Pipeline
    /\ pc = "done"
    /\ Len(crop) >= 2
    /\ \E i \in DOMAIN det : det[i].res.tag = "None"

\* C10: when a call of find_center that created a temporary file has returned
\* or raised, that file no longer exists; a call for a missing source file
\* creates no temporary file; no task reads, writes or removes a temporary
\* file created by another task.
C10_TempFileLifecycle ==
    Pipeline =>
        /\ \A i \in DOMAIN det :
               /\ det[i].st \in {"done", "raised"} =>
                      ~\E f \in tmpFiles : f.owner = i \/ f.name = det[i].temp
               /\ det[i].st = "running" =>
                      [name |-> det[i].temp, owner |-> i] \in tmpFiles
               /\ ~isfile(frames[i]) =>
                      det[i].temp = None /\ ~\E f \in tmpFiles : f.owner = i
        /\ \A i, j \in DOMAIN det :
               (i # j /\ det[i].st = "running" /\ det[j].st = "running")
                   => det[i].temp # det[j].temp
        /\ ~foreign

\* C10 witness: one call has returned a Centroid, one has raised, both after
\* creating a temporary file, while a third call's temporary file exists.
C10_Witness ==
    /\ Pipeline
    /\ \E i, j, k \in DOMAIN det :
           /\ det[i].st = "done" /\ det[i].res.tag = "tuple" /\ det[i].temp # None
           /\ det[j].st = "raised" /\ det[j].temp # None
           /\ det[k].st = "running" /\ \E f \in tmpFiles : f.owner = k

====
